---- MODULE Spec2Model ----
(***************************************************************************)
(* Model of the pack allocator of n-th/gymshark:                           *)
(*   internal/allocator/allocator.go  (Allocator, NewAllocator,            *)
(*       CalculatePacks, CalculatePacksOptimized, findOptimal)             *)
(*   internal/storage (SQLiteStorage: StoreAllocation,                     *)
(*       GetAllocationByQuantity)                                          *)
(* A Go map[int]int is a TLA+ function whose DOMAIN is the key set; the    *)
(* nil map is told apart from the empty map by a separate flag.            *)
(***************************************************************************)
EXTENDS Integers, Sequences, FiniteSets, TLC

(***************************************************************************)
(* Bounds of the model.                                                    *)
(***************************************************************************)
MaxSize == 5
MaxCatalog == 3
MaxQty == 7
MaxServerQty == 4
MaxRows == 2
MaxClock == 1
MaxCatalogSize == 2
MaxCatalogQty == 2

PackSizeValues == 1..MaxSize
Quantities == (0 - 1)..MaxQty
ServerQuantities == 0..MaxServerQty

\* Every pack-size list a caller can hand to NewAllocator within the bounds:
\* any order, duplicates allowed, the empty list included.
InputLists == UNION {[1..n -> PackSizeValues] : n \in 0..MaxCatalog}

(***************************************************************************)
(* Go values.                                                              *)
(***************************************************************************)
EmptyMap == [k \in {} |-> 0]

\* m[k] = v on a Go map
MapPut(m, k, v) == [x \in (DOMAIN m) \cup {k} |-> IF x = k THEN v ELSE m[x]]

\* delete(m, k)
MapDelete(m, k) == [x \in (DOMAIN m) \ {k} |-> m[x]]

\* Go's integer division truncates toward zero; b # 0.
GoDiv(a, b) ==
  IF (a >= 0 /\ b > 0) THEN a \div b
  ELSE IF (a < 0 /\ b > 0) THEN 0 - ((0 - a) \div b)
  ELSE IF (a >= 0 /\ b < 0) THEN 0 - (a \div (0 - b))
  ELSE (0 - a) \div (0 - b)

\* n / size, without the rounding up.
CeilDivRoundedDown(n, size) == GoDiv(n, size)

\* (n + size - 1) / size
CeilDiv(n, size) == GoDiv(n + size - 1, size)

\* TLC evaluates operator arguments by need.  Evaluated(v, e) is e, with v
\* computed first, so that a long loop is evaluated step by step instead of
\* as one deep chain of suspended loop states.
Evaluated(v, e) == IF v = v THEN e ELSE e

ErrNil == "<nil>"
ErrInvalidQuantity == "quantity must be greater than 0"
ErrNoCombinationMsg == "no valid pack combination found"
PanicDivideByZero == "panic: runtime error: integer divide by zero"
PanicIndexOutOfRange == "panic: runtime error: index out of range [0] with length 0"

(***************************************************************************)
(* NewAllocator: copy the input and sort it descending.                    *)
(***************************************************************************)
RECURSIVE SortDesc(_)
SortDesc(s) ==
  IF Len(s) = 0 THEN << >>
  ELSE LET i == CHOOSE i \in 1..Len(s) : \A j \in 1..Len(s) : s[i] >= s[j]
           rest == [k \in 1..(Len(s) - 1) |-> IF k < i THEN s[k] ELSE s[k + 1]]
       IN <<s[i]>> \o SortDesc(rest)

\* The copy of the input without the sort.
NewAllocatorUnsorted(sizes) == sizes

\* Lines 29-35: a nil input becomes the empty slice, the input is copied and
\* the copy is sorted descending.
NewAllocator(sizes) == SortDesc(sizes)

(***************************************************************************)
(* CalculatePacks, allocator.go:200-301.                                   *)
(***************************************************************************)
\* The candidate test with the comparison of the overages turned round.
BetterCandidateLargerOverage(overage, currentTotal, st) ==
  \/ overage > st.bestOverage
  \/ (overage = st.bestOverage /\ currentTotal < st.bestTotal)

\* The candidate test of lines 254 and 275.
BetterCandidate(overage, currentTotal, st) ==
  \/ overage < st.bestOverage
  \/ (overage = st.bestOverage /\ currentTotal < st.bestTotal)

\* Lines 254-261 / 275-282: the running best takes a copy of currentResult.
Consider(st, currentResult, currentTotal, overage) ==
  IF BetterCandidate(overage, currentTotal, st)
  THEN [bestResult |-> currentResult, bestTotal |-> currentTotal,
        bestOverage |-> overage]
  ELSE st

\* Lines 266-283: the loop over the smaller sizes, from index j on.  The
\* loop state is (currentResult, currentTotal, best); remaining is not
\* updated inside the loop.
RECURSIVE SmallerLoop(_, _, _, _, _, _, _, _)
SmallerLoop(ps, orderQuantity, size, remaining, j, currentResult, currentTotal, st) ==
  IF j > Len(ps) THEN [currentResult |-> currentResult, st |-> st]
  ELSE IF ps[j] >= size
  THEN SmallerLoop(ps, orderQuantity, size, remaining, j + 1,
                   currentResult, currentTotal, st)
  ELSE LET smallerSize == ps[j]
           smallerPacks == CeilDiv(remaining, smallerSize)
           cr == MapPut(currentResult, smallerSize, smallerPacks)
           ct == currentTotal + smallerPacks * smallerSize
           overage == ct - orderQuantity
           st1 == Consider(st, cr, ct, overage)
       IN Evaluated(st1, SmallerLoop(ps, orderQuantity, size, remaining,
                                     j + 1, cr, ct, st1))

\* Lines 247-283: one iteration of the loop over packs.  The loop state is
\* (currentResult, best): currentResult is created once per size (line 240)
\* and lives across the iterations.
PacksStep(ps, orderQuantity, size, packs, ls) ==
  LET cr == MapPut(ls.currentResult, size, packs)
      currentTotal == packs * size
      remaining == orderQuantity - currentTotal
  IN IF remaining <= 0
     THEN [currentResult |-> cr,
           st |-> Consider(ls.st, cr, currentTotal, 0 - remaining)]
     ELSE SmallerLoop(ps, orderQuantity, size, remaining, 1, cr,
                      currentTotal, ls.st)

\* Line 246: for packs := from; packs >= to; packs--, the iterations taken
\* in that order (the range is halved so that a long loop is not evaluated
\* as one deep recursion).
RECURSIVE PacksLoop(_, _, _, _, _, _)
PacksLoop(ps, orderQuantity, size, from, to, ls) ==
  IF from < to THEN ls
  ELSE IF from = to THEN PacksStep(ps, orderQuantity, size, from, ls)
  ELSE LET mid == (from + to) \div 2
           upper == PacksLoop(ps, orderQuantity, size, from, mid + 1, ls)
       IN Evaluated(upper, PacksLoop(ps, orderQuantity, size, mid, to, upper))

\* minPacks[size] rounded down instead of up.
MinPacksRoundedDown(orderQuantity, size) == GoDiv(orderQuantity, size)

\* Lines 228-231 and 245: minPacks[size].
MinPacks(orderQuantity, size) == CeilDiv(orderQuantity, size)

\* Lines 239-285: the loop over the sizes, from index i on.
RECURSIVE SizeLoop(_, _, _, _)
SizeLoop(ps, orderQuantity, i, st) ==
  IF i > Len(ps) THEN st
  ELSE LET st1 == PacksLoop(ps, orderQuantity, ps[i],
                            MinPacks(orderQuantity, ps[i]), 0,
                            [currentResult |-> EmptyMap, st |-> st]).st
       IN Evaluated(st1, SizeLoop(ps, orderQuantity, i + 1, st1))

\* Every entry copied to the result, the zero counts too.
AllEntries(m) == m

\* Lines 287-292: only the positive counts are copied to the result.
PositiveEntries(m) == [k \in {x \in DOMAIN m : m[x] > 0} |-> m[k]]

\* The two input checks taken in the other order.
InputErrorSizesFirst(ps, orderQuantity) ==
  IF Len(ps) = 0 THEN "no pack sizes configured"
  ELSE IF orderQuantity <= 0 THEN "quantity must be greater than 0"
  ELSE ErrNil

\* Lines 202-210: the error CalculatePacks returns before any work, or nil.
InputError(ps, orderQuantity) ==
  IF orderQuantity <= 0 THEN "quantity must be greater than 0"
  ELSE IF Len(ps) = 0 THEN "no pack sizes configured"
  ELSE ErrNil

\* One pack of the first size of the list, the largest one.
SingleFirstPack(ps) ==
  [packs |-> MapPut(EmptyMap, ps[1], 1), isNil |-> FALSE,
   total |-> ps[1], err |-> ErrNil]

\* Lines 213-221: the result of the special case, one pack of the smallest
\* size, which is the last of the list.
SingleSmallestPack(ps) ==
  [packs |-> MapPut(EmptyMap, ps[Len(ps)], 1), isNil |-> FALSE,
   total |-> ps[Len(ps)], err |-> ErrNil]

\* What CalculatePacks computes before it touches the storage: the triple
\* (packs, total, error) it will return.
CalculatePacksResult(ps, orderQuantity) ==
  IF InputError(ps, orderQuantity) # ErrNil
  THEN [packs |-> EmptyMap, isNil |-> TRUE, total |-> 0,
        err |-> InputError(ps, orderQuantity)]
  ELSE LET smallest == ps[Len(ps)]
       IN IF orderQuantity < smallest
          THEN SingleSmallestPack(ps)
          ELSE LET st == SizeLoop(ps, orderQuantity, 1,
                                  [bestResult |-> EmptyMap, bestTotal |-> 0,
                                   bestOverage |-> orderQuantity])
               IN [packs |-> PositiveEntries(st.bestResult), isNil |-> FALSE,
                   total |-> st.bestTotal, err |-> ErrNil]

(***************************************************************************)
(* CalculatePacksOptimized and findOptimal, allocator.go:41-120.           *)
(***************************************************************************)
WasteFactor == 1000000

\* Line 94: does the combination just completed replace the best one?
Improves(best, waste, packCount) ==
  \/ ~best.found
  \/ waste < best.waste
  \/ (waste = best.waste /\ packCount < best.packCount)

\* A search that takes only combinations without overage.
ReachesTargetExactly(total, target) == total = target

\* Line 92: the combination built so far covers the target.
ReachesTarget(total, target) == total >= target

\* findOptimal(target, index, current, total, packCount, best).  current and
\* best are shared and mutated by the recursion, so both are handed back.
\* index is 1-based here (index >= len(packSizes) is index > Len(ps)).
RECURSIVE FindOptimal(_, _, _, _, _, _, _)
RECURSIVE FindLoop(_, _, _, _, _, _, _, _)
FindOptimal(ps, target, index, current, total, packCount, best) ==
  IF ReachesTarget(total, target)
  THEN LET waste == total - target
       IN [current |-> current,
           best |-> IF Improves(best, waste, packCount)
                    THEN [found |-> TRUE, total |-> total, waste |-> waste,
                          packCount |-> packCount, packs |-> current]
                    ELSE best]
  ELSE IF index > Len(ps)
  THEN [current |-> current, best |-> best]
  ELSE FindLoop(ps, target, index,
                CeilDiv(target - total, ps[index]),
                current, total, packCount, best)

\* Lines 112-119: for q := maxQty; q >= 0; q--.
FindLoop(ps, target, index, q, current, total, packCount, best) ==
  IF q < 0 THEN [current |-> current, best |-> best]
  ELSE LET size == ps[index]
           cur == IF q > 0 THEN MapPut(current, size, q)
                  ELSE MapDelete(current, size)
           r == FindOptimal(ps, target, index + 1, cur, total + q * size,
                            packCount + q, best)
       IN Evaluated(r, FindLoop(ps, target, index, q - 1, r.current, total,
                                packCount, r.best))

\* Lines 54-71: the search of CalculatePacksOptimized on a cache miss, for a
\* non-empty packSizes: the value of best after findOptimal.
SearchBest(ps, quantity) ==
  LET maxPackSize == ps[1]
      maxPossibleWaste == maxPackSize * WasteFactor
  IN FindOptimal(ps, quantity, 1, EmptyMap, 0, 0,
                 [found |-> FALSE, total |-> 0, waste |-> maxPossibleWaste,
                  packCount |-> 0, packs |-> EmptyMap]).best

(***************************************************************************)
(* GreedyWithCorrectionPacks, allocator.go:122-170.                        *)
(***************************************************************************)
\* packs[k] of a Go map: the zero value when the key is absent.
MapGet(m, k) == IF k \in DOMAIN m THEN m[k] ELSE 0

\* Lines 131-138: as many packs of each size as fit, largest size first.
RECURSIVE GreedyPhase(_, _, _)
GreedyPhase(ps, i, st) ==
  IF i > Len(ps) THEN st
  ELSE LET size == ps[i]
           count == GoDiv(st.remaining, size)
       IN GreedyPhase(ps, i + 1,
                      IF count > 0
                      THEN [packs |-> MapPut(st.packs, size, count),
                            total |-> st.total + size * count,
                            remaining |-> st.remaining - size * count]
                      ELSE st)

\* Lines 141-145: one more pack of the smallest size for what is left.
AddSmallest(ps, st) ==
  IF st.remaining > 0
  THEN LET smallest == ps[Len(ps)]
       IN [st EXCEPT !.packs = MapPut(@, smallest, MapGet(@, smallest) + 1),
                     !.total = @ + smallest]
  ELSE st

\* Lines 158-161: packs[small]--, the entry deleted when it reaches 0.
MapDecrement(m, k) ==
  IF m[k] - 1 = 0 THEN MapDelete(m, k) ELSE MapPut(m, k, m[k] - 1)

\* A correction that takes every replacement that still covers the quantity.
CorrectsWithoutGain(newTotal, total, quantity) == newTotal >= quantity

\* Line 157: the replacement still covers the quantity and lowers the total.
Corrects(newTotal, total, quantity) ==
  newTotal >= quantity /\ newTotal < total

\* Lines 154-166: the larger sizes from index j down to the first; the first
\* one that lowers the total without uncovering the quantity replaces one
\* pack of small, and the loop breaks.  Indexes are 1-based here.
RECURSIVE CorrectionInner(_, _, _, _, _)
CorrectionInner(ps, quantity, small, j, st) ==
  IF j < 1 THEN st
  ELSE LET large == ps[j]
           newTotal == st.total - small + large
       IN IF Corrects(newTotal, st.total, quantity)
          THEN LET less == MapDecrement(st.packs, small)
               IN [st EXCEPT !.packs = MapPut(less, large,
                                              MapGet(less, large) + 1),
                             !.total = newTotal]
          ELSE CorrectionInner(ps, quantity, small, j - 1, st)

\* Lines 149-167: the sizes from the smallest up to the second largest.
RECURSIVE CorrectionOuter(_, _, _, _)
CorrectionOuter(ps, quantity, i, st) ==
  IF i < 2 THEN st
  ELSE CorrectionOuter(ps, quantity, i - 1,
                       IF MapGet(st.packs, ps[i]) = 0 THEN st
                       ELSE CorrectionInner(ps, quantity, ps[i], i - 1, st))

PanicIndexMinusOne == "panic: runtime error: index out of range [-1]"

\* The panic GreedyWithCorrectionPacks ends in, or nil: line 132 divides by
\* every size, line 142 indexes the last size of an empty list.
GreedyPanic(ps, quantity) ==
  IF \E i \in 1..Len(ps) : ps[i] = 0 THEN PanicDivideByZero
  ELSE IF Len(ps) = 0 /\ quantity > 0 THEN PanicIndexMinusOne
  ELSE ErrNil

\* Lines 125-145: packs and total before the correction phase.
GreedyBeforeCorrection(ps, quantity) ==
  AddSmallest(ps, GreedyPhase(ps, 1,
                              [packs |-> EmptyMap, total |-> 0,
                               remaining |-> quantity]))

\* The (packs, total) GreedyWithCorrectionPacks returns when it returns.
GreedyResult(ps, quantity) ==
  LET greedy == GreedyBeforeCorrection(ps, quantity)
      corrected == CorrectionOuter(ps, quantity, Len(ps), greedy)
  IN [packs |-> corrected.packs, total |-> corrected.total]

(***************************************************************************)
(* SQLiteStorage.  The allocations table is the sequence rows, in insert   *)
(* order; the packs column holds the JSON text of the map.                 *)
(***************************************************************************)
ErrInvalidArgumentMsg == "invalid argument"
ErrDatabaseMsg == "sql: database error"

\* strconv.Itoa: the decimal text of n as a sequence of character codes.
RECURSIVE Itoa(_)
Itoa(n) ==
  IF n < 0 THEN <<45>> \o Itoa(0 - n)
  ELSE IF n < 10 THEN <<48 + n>>
  ELSE Itoa(n \div 10) \o <<48 + (n % 10)>>

\* strconv.Atoi on a text Itoa can produce.
RECURSIVE AtoiDigits(_, _)
AtoiDigits(s, acc) ==
  IF Len(s) = 0 THEN acc
  ELSE AtoiDigits(Tail(s), acc * 10 + (Head(s) - 48))

Atoi(s) ==
  IF Len(s) > 0 /\ Head(s) = 45 THEN 0 - AtoiDigits(Tail(s), 0)
  ELSE AtoiDigits(s, 0)

\* Byte-wise string order, the order in which encoding/json writes map keys.
RECURSIVE StrLess(_, _)
StrLess(a, b) ==
  IF Len(b) = 0 THEN FALSE
  ELSE IF Len(a) = 0 THEN TRUE
  ELSE IF Head(a) # Head(b) THEN Head(a) < Head(b)
  ELSE StrLess(Tail(a), Tail(b))

RECURSIVE SortStrings(_)
SortStrings(S) ==
  IF S = {} THEN << >>
  ELSE LET m == CHOOSE x \in S : \A y \in S \ {x} : StrLess(x, y)
       IN <<m>> \o SortStrings(S \ {m})

\* json.Marshal of a non-nil map[int]int: the members "key":value, keys as
\* decimal strings in string order.
Marshal(packs) ==
  LET keys == SortStrings({Itoa(k) : k \in DOMAIN packs})
  IN [i \in 1..Len(keys) |-> <<keys[i], Itoa(packs[Atoi(keys[i])])>>]

\* json.Unmarshal into a map[int]int.
Unmarshal(text) ==
  LET ks == {Atoi(text[i][1]) : i \in 1..Len(text)}
  IN [k \in ks |->
        LET i == CHOOSE i \in 1..Len(text) : Atoi(text[i][1]) = k
        IN Atoi(text[i][2])]

\* StoreAllocation(quantity, packs, total) at time now; dbOk is whether the
\* INSERT succeeds.  Gives the new table and the error returned.
StoreAllocation(table, now, quantity, packs, isNil, total, dbOk) ==
  IF isNil THEN [rows |-> table, err |-> ErrInvalidArgumentMsg]
  ELSE IF ~dbOk THEN [rows |-> table, err |-> ErrDatabaseMsg]
  ELSE [rows |-> Append(table, [id |-> Len(table) + 1,
                                order_quantity |-> quantity,
                                packs |-> Marshal(packs),
                                total |-> total,
                                created_at |-> now]),
        err |-> ErrNil]

\* The rows the query of GetAllocationByQuantity may return: WHERE
\* order_quantity = ? ORDER BY created_at DESC LIMIT 1.  created_at has a
\* resolution of one second and SQL leaves the order of equal keys open, so
\* any row with the latest created_at can be the one.
LatestRows(table, quantity) ==
  {i \in 1..Len(table) :
     /\ table[i].order_quantity = quantity
     /\ \A j \in 1..Len(table) :
          table[j].order_quantity = quantity
            => table[j].created_at <= table[i].created_at}

\* The Allocation scanned from row i.
ScanAllocation(table, i) ==
  [ID |-> table[i].id, OrderQuantity |-> table[i].order_quantity,
   Packs |-> Unmarshal(table[i].packs), Total |-> table[i].total,
   CreatedAt |-> table[i].created_at]

\* Go's min of two ints.
Min(a, b) == IF a < b THEN a ELSE b

\* The row orders the query of GetRecentAllocations may produce: ORDER BY
\* created_at DESC, rows of the same second in any order.
RecentOrders(table) ==
  {p \in [1..Len(table) -> 1..Len(table)] :
     /\ \A a, b \in 1..Len(table) : a # b => p[a] # p[b]
     /\ \A a, b \in 1..Len(table) :
          a < b => table[p[a]].created_at >= table[p[b]].created_at}

\* The slice GetRecentAllocations(limit) builds from the row order p:
\* LIMIT ? keeps the first limit rows, all of them when limit is negative.
ScanRecent(table, p, limit) ==
  LET n == IF limit < 0 THEN Len(table) ELSE Min(limit, Len(table))
  IN [k \in 1..n |-> ScanAllocation(table, p[k])]

(***************************************************************************)
(* State.                                                                  *)
(*   input       the slice the caller handed to NewAllocator               *)
(*   packSizes   Allocator.packSizes                                       *)
(*   hasStorage  Allocator.storage != nil                                  *)
(*   closed      the storage's database handle has been closed             *)
(*   rows        the allocations table of the SQLite storage               *)
(*   clock       CURRENT_TIMESTAMP, in seconds                             *)
(*   ret         what the last allocation call did: its arguments, the     *)
(*               triple it returned, whether it answered from the cache    *)
(*               and what it handed to StoreAllocation                     *)
(*   remembered  one earlier successful answer of CalculatePacksOptimized, *)
(*               any of them (history, read by no operation)               *)
(***************************************************************************)
VARIABLES input, packSizes, hasStorage, closed, rows, clock, ret, remembered,
          http

vars ==
  <<input, packSizes, hasStorage, closed, rows, clock, ret, remembered,
    http>>

\* What a handler leaves alone while it does not call the allocator.
allocatorVars ==
  <<input, packSizes, hasStorage, closed, rows, clock, ret, remembered>>

NoStore == [called |-> FALSE, packs |-> EmptyMap, total |-> 0, err |-> ErrNil]

NoCall ==
  [op |-> "none", quantity |-> 0, packs |-> EmptyMap, isNil |-> TRUE,
   limit |-> 0, recent |-> << >>,
   total |-> 0, err |-> ErrNil, panicked |-> FALSE, cacheHit |-> FALSE,
   store |-> NoStore]

NoAnswer == [set |-> FALSE, quantity |-> 0, packs |-> EmptyMap, total |-> 0]

\* No request is being served.
NoRequest ==
  [pc |-> "idle", path |-> "", query |-> << >>, quantity |-> 0,
   ctxDone |-> FALSE, responses |-> << >>]

\* An allocator built by NewAllocator(input, storage) over an empty table.
Built(inputs) ==
  /\ input \in inputs
  /\ packSizes = NewAllocator(input)
  /\ hasStorage \in BOOLEAN
  /\ closed = FALSE
  /\ rows = << >>
  /\ clock = 0
  /\ ret = NoCall
  /\ remembered = NoAnswer
  /\ http = NoRequest

\* The outcomes the INSERT of a call can have; a call that reaches no
\* StoreAllocation has nothing to choose, and on a closed database every
\* statement fails.
DbOutcomes(reachesStore) ==
  IF ~reachesStore THEN {TRUE} ELSE IF closed THEN {FALSE} ELSE BOOLEAN

\* Line 230 divides by every pack size; the call gets there when neither the
\* input checks (202-210) nor the smaller-than-smallest case (212-222) has
\* returned.
DividesByZero(ps, orderQuantity) ==
  /\ orderQuantity > 0
  /\ Len(ps) > 0
  /\ ~(orderQuantity < ps[Len(ps)])
  /\ \E i \in 1..Len(ps) : ps[i] = 0

\* A storage error passed on to the caller in place of the result.
AfterStoreReturningError(r, storeErr) ==
  IF storeErr # ErrNil
  THEN [packs |-> EmptyMap, isNil |-> TRUE, total |-> 0, err |-> storeErr]
  ELSE r

\* Lines 216-221 and 294-300: the error of StoreAllocation is logged and the
\* computed result is returned as it is.
AfterStore(r, storeErr) == r

\* A call that hands whatever it has to the storage, an error included.
ReachesStoreOnError(storage, err) == storage

\* Lines 216 and 294: StoreAllocation is called when there is a storage,
\* and only on the paths that have computed a result; the returns of lines
\* 204 and 209 come before.
ReachesStore(storage, err) == storage /\ err = ErrNil

\* CalculatePacks(orderQuantity), allocator.go:200-301: compute, then hand
\* the result to the storage when there is one (lines 216-220, 294-298); a
\* storage error is only logged.
CalculatePacks(orderQuantity) ==
  IF DividesByZero(packSizes, orderQuantity)
  THEN /\ ret' = [op |-> "CalculatePacks", quantity |-> orderQuantity,
                  limit |-> 0, recent |-> << >>,
                  packs |-> EmptyMap, isNil |-> TRUE, total |-> 0,
                  err |-> PanicDivideByZero, panicked |-> TRUE,
                  cacheHit |-> FALSE, store |-> NoStore]
       /\ UNCHANGED <<input, packSizes, hasStorage, closed, rows, clock, remembered>>
  ELSE
    \E r \in {CalculatePacksResult(packSizes, orderQuantity)} :
    LET reachesStore == ReachesStore(hasStorage, r.err)
    IN /\ reachesStore => Len(rows) < MaxRows
       /\ \E dbOk \in DbOutcomes(reachesStore) :
            LET s == StoreAllocation(rows, clock, orderQuantity, r.packs,
                                     r.isNil, r.total, dbOk)
                out == AfterStore(r, IF reachesStore THEN s.err ELSE ErrNil)
            IN /\ rows' = IF reachesStore THEN s.rows ELSE rows
               /\ ret' = [op |-> "CalculatePacks", quantity |-> orderQuantity,
                          limit |-> 0, recent |-> << >>,
                          packs |-> out.packs, isNil |-> out.isNil,
                          total |-> out.total, err |-> out.err,
                          panicked |-> FALSE, cacheHit |-> FALSE,
                          store |-> IF reachesStore
                                    THEN [called |-> TRUE, packs |-> r.packs,
                                          total |-> r.total, err |-> s.err]
                                    ELSE NoStore]
       /\ UNCHANGED <<input, packSizes, hasStorage, closed, clock, remembered>>

\* The history after a call of CalculatePacksOptimized that returned
\* (packs, total, nil) for quantity: while no answer is remembered, this one
\* may become the remembered one.
Remember(quantity, packs, total) ==
  IF remembered.set THEN {remembered}
  ELSE {remembered,
        [set |-> TRUE, quantity |-> quantity, packs |-> packs,
         total |-> total]}

\* Lines 43-45.
OptimizedInvalid(quantity) ==
  /\ quantity <= 0
  /\ ret' = [op |-> "CalculatePacksOptimized", quantity |-> quantity,
             limit |-> 0, recent |-> << >>,
             packs |-> EmptyMap, isNil |-> TRUE, total |-> 0,
             err |-> ErrInvalidQuantity, panicked |-> FALSE,
             cacheHit |-> FALSE, store |-> NoStore]
  /\ UNCHANGED <<input, packSizes, hasStorage, closed, rows, clock, remembered>>

\* Lines 47-52: the lookup succeeded and found a row.
OptimizedCacheHit(quantity) ==
  /\ quantity > 0
  /\ hasStorage
  /\ ~closed
  /\ \E i \in LatestRows(rows, quantity) :
       LET cached == ScanAllocation(rows, i)
       IN /\ ret' = [op |-> "CalculatePacksOptimized",
                     quantity |-> quantity, packs |-> cached.Packs,
                     limit |-> 0, recent |-> << >>,
                     isNil |-> FALSE, total |-> cached.Total,
                     err |-> ErrNil, panicked |-> FALSE, cacheHit |-> TRUE,
                     store |-> NoStore]
          /\ remembered' \in Remember(quantity, cached.Packs, cached.Total)
  /\ UNCHANGED <<input, packSizes, hasStorage, closed, rows, clock>>

\* No storage, no row for the quantity, or a failed lookup (err != nil):
\* the call goes on to line 54.
CacheMiss(quantity, lookupOk) ==
  \/ ~hasStorage
  \/ ~lookupOk
  \/ LatestRows(rows, quantity) = {}

\* The panic a search on ps ends in, or nil: line 54 indexes the first size
\* of an empty list; line 109 divides by the size at every index the search
\* reaches, and through its q = 0 branches it reaches every index.
SearchPanic(ps) ==
  IF Len(ps) = 0 THEN PanicIndexOutOfRange
  ELSE IF \E i \in 1..Len(ps) : ps[i] = 0 THEN PanicDivideByZero
  ELSE ErrNil

\* Lines 54-67 when the search panics.
OptimizedPanic(quantity) ==
  /\ quantity > 0
  /\ SearchPanic(packSizes) # ErrNil
  /\ \E lookupOk \in BOOLEAN : CacheMiss(quantity, lookupOk)
  /\ ret' = [op |-> "CalculatePacksOptimized", quantity |-> quantity,
             limit |-> 0, recent |-> << >>,
             packs |-> EmptyMap, isNil |-> TRUE, total |-> 0,
             err |-> SearchPanic(packSizes), panicked |-> TRUE,
             cacheHit |-> FALSE, store |-> NoStore]
  /\ UNCHANGED <<input, packSizes, hasStorage, closed, rows, clock, remembered>>

\* Lines 54-80: search, then store (best effort) and return.  best is the
\* outcome of the one search the call makes.
OptimizedSearch(quantity) ==
  /\ quantity > 0
  /\ SearchPanic(packSizes) = ErrNil
  /\ \E lookupOk \in BOOLEAN : CacheMiss(quantity, lookupOk)
  /\ \E best \in {SearchBest(packSizes, quantity)} :
     LET reachesStore == hasStorage /\ best.found
     IN /\ reachesStore => Len(rows) < MaxRows
        /\ \E dbOk \in DbOutcomes(reachesStore) :
             LET s == StoreAllocation(rows, clock, quantity, best.packs,
                                      FALSE, best.total, dbOk)
             IN /\ rows' = IF reachesStore THEN s.rows ELSE rows
                /\ ret' = IF best.found
                          THEN [op |-> "CalculatePacksOptimized",
                                quantity |-> quantity, packs |-> best.packs,
                                limit |-> 0, recent |-> << >>,
                                isNil |-> FALSE, total |-> best.total,
                                err |-> ErrNil, panicked |-> FALSE,
                                cacheHit |-> FALSE,
                                store |-> IF reachesStore
                                          THEN [called |-> TRUE,
                                                packs |-> best.packs,
                                                total |-> best.total,
                                                err |-> s.err]
                                          ELSE NoStore]
                          ELSE [op |-> "CalculatePacksOptimized",
                                quantity |-> quantity, packs |-> EmptyMap,
                                limit |-> 0, recent |-> << >>,
                                isNil |-> TRUE, total |-> 0,
                                err |-> ErrNoCombinationMsg,
                                panicked |-> FALSE, cacheHit |-> FALSE,
                                store |-> NoStore]
        /\ remembered' \in IF best.found
                             THEN Remember(quantity, best.packs, best.total)
                             ELSE {remembered}
  /\ UNCHANGED <<input, packSizes, hasStorage, closed, clock>>

\* CalculatePacksOptimized(quantity), allocator.go:41-81.
CalculatePacksOptimized(quantity) ==
  \/ OptimizedInvalid(quantity)
  \/ OptimizedCacheHit(quantity)
  \/ OptimizedPanic(quantity)
  \/ OptimizedSearch(quantity)

\* A second passes: CURRENT_TIMESTAMP moves on.
Tick ==
  /\ clock < MaxClock
  /\ clock' = clock + 1
  /\ UNCHANGED <<input, packSizes, hasStorage, closed, rows, ret, remembered>>

\* GreedyWithCorrectionPacks(quantity), allocator.go:124-170: reads
\* a.packSizes, writes nothing of the allocator and does not use the
\* storage.
GreedyWithCorrectionPacks(quantity) ==
  /\ ret' = IF GreedyPanic(packSizes, quantity) # ErrNil
            THEN [NoCall EXCEPT !.op = "GreedyWithCorrectionPacks",
                                !.quantity = quantity,
                                !.err = GreedyPanic(packSizes, quantity),
                                !.panicked = TRUE]
            ELSE LET r == GreedyResult(packSizes, quantity)
                 IN [NoCall EXCEPT !.op = "GreedyWithCorrectionPacks",
                                   !.quantity = quantity,
                                   !.packs = r.packs, !.isNil = FALSE,
                                   !.total = r.total]
  /\ UNCHANGED <<input, packSizes, hasStorage, closed, rows, clock,
                 remembered>>

ErrStorageNotConfigured == "storage not configured"

\* The limit the /recent handler asks for.
HandlerLimit == 10

RecentLimits == {1, HandlerLimit}

\* Allocator.GetRecentAllocations(limit), allocator.go:183-188, over
\* SQLiteStorage.GetRecentAllocations: without a storage the call fails; a
\* failed query gives (nil, err); otherwise the rows are scanned in the
\* order the query produced.
GetRecentAllocations(limit) ==
  /\ \/ /\ ~hasStorage
        /\ ret' = [NoCall EXCEPT !.op = "GetRecentAllocations",
                                 !.limit = limit,
                                 !.err = ErrStorageNotConfigured]
     \/ /\ hasStorage
        /\ \E dbOk \in DbOutcomes(TRUE) :
             IF ~dbOk
             THEN ret' = [NoCall EXCEPT !.op = "GetRecentAllocations",
                                        !.limit = limit,
                                        !.err = ErrDatabaseMsg]
             ELSE \E p \in RecentOrders(rows) :
                    ret' = [NoCall EXCEPT !.op = "GetRecentAllocations",
                                          !.limit = limit,
                                          !.recent = ScanRecent(rows, p, limit),
                                          !.isNil = (Len(rows) = 0 \/ limit = 0)]
  /\ UNCHANGED <<input, packSizes, hasStorage, closed, rows, clock,
                 remembered>>

\* Allocator.Close(), allocator.go:192-197: closes the storage when there is
\* one; every later statement on the database fails.
Close ==
  /\ closed' = (closed \/ hasStorage)
  /\ ret' = [NoCall EXCEPT !.op = "Close"]
  /\ UNCHANGED <<input, packSizes, hasStorage, rows, clock, remembered>>

\* Before NewAllocator has been called: the caller holds its slice.
Unbuilt == [NoCall EXCEPT !.op = "unbuilt"]

\* NewAllocator(input, storage), allocator.go:28-36: the allocator gets a
\* sorted copy; the caller's slice is only read.
NewAllocatorCall ==
  /\ ret.op = "unbuilt"
  /\ packSizes' = NewAllocator(input)
  /\ ret' = NoCall
  /\ UNCHANGED <<input, hasStorage, closed, rows, clock, remembered>>

\* The allocator's slice and the caller's slice sharing one backing array.
CatalogSharingCallerSlice(ps, callerSlice) == callerSlice

\* Lines 32-33: sizes is a slice of its own (make + copy), so a write to the
\* caller's slice does not reach it.
CatalogAfterCallerWrite(ps, callerSlice) == ps

\* The caller writes v to element i of the slice it handed to NewAllocator
\* (its first write after the construction).
CallerWrites(i, v) ==
  /\ ret.op = "none"
  /\ NewAllocator(input) = packSizes
  /\ input[i] # v
  /\ input' = [input EXCEPT ![i] = v]
  /\ packSizes' = CatalogAfterCallerWrite(packSizes, input')
  /\ UNCHANGED <<hasStorage, closed, rows, clock, ret, remembered>>

(***************************************************************************)
(* Spec: the allocator as cmd/api builds it, serving calls one after the   *)
(* other over its storage.                                                 *)
(***************************************************************************)
\* The pack sizes main falls back to when the configuration is rejected.
DefaultPackSizes == <<1, 2, 3>>

ServerInputLists == {<< >>, DefaultPackSizes, <<2, 1, 2>>}

Init == Built(ServerInputLists)

Next ==
  \/ \E q \in ServerQuantities : CalculatePacks(q) /\ UNCHANGED http
  \/ \E q \in ServerQuantities : CalculatePacksOptimized(q) /\ UNCHANGED http
  \/ GetRecentAllocations(HandlerLimit) /\ UNCHANGED http
  \/ Tick /\ UNCHANGED http

Spec == Init /\ [][Next]_vars

(***************************************************************************)
(* SpecCall: one allocation call on a freshly built allocator, for every   *)
(* pack-size list and quantity within the bounds.                          *)
(***************************************************************************)
InitCall == Built(InputLists)

Fresh == ret.op = "none"

NextCall ==
  \/ \E q \in Quantities : Fresh /\ CalculatePacks(q) /\ UNCHANGED http
  \/ \E q \in Quantities :
       Fresh /\ CalculatePacksOptimized(q) /\ UNCHANGED http

SpecCall == InitCall /\ [][NextCall]_vars

(***************************************************************************)
(* SpecStore: the server's allocator taking allocation calls one after the *)
(* other, each over the table the earlier ones have filled.                *)
(***************************************************************************)
NextStore ==
  \/ \E q \in ServerQuantities : CalculatePacks(q) /\ UNCHANGED http
  \/ \E q \in ServerQuantities : CalculatePacksOptimized(q) /\ UNCHANGED http

SpecStore == Init /\ [][NextStore]_vars

(***************************************************************************)
(* SpecGreedy: one call of GreedyWithCorrectionPacks on a freshly built    *)
(* allocator, for every pack-size list and quantity within the bounds.     *)
(***************************************************************************)
NextGreedy ==
  \E q \in Quantities :
    Fresh /\ GreedyWithCorrectionPacks(q) /\ UNCHANGED http

SpecGreedy == InitCall /\ [][NextGreedy]_vars

(***************************************************************************)
(* SpecChallenge: the catalog and the orders of the challenge's examples,  *)
(* served by CalculatePacks as GET /calculate does.                        *)
(***************************************************************************)
ChallengePackSizes == <<250, 500, 1000, 2000, 5000>>

ChallengeQuantities == {1, 250, 251, 501, 12001}

InitChallenge == Built({ChallengePackSizes})

NextChallenge ==
  \/ \E q \in ChallengeQuantities : CalculatePacks(q) /\ UNCHANGED http
  \/ Tick /\ UNCHANGED http

SpecChallenge == InitChallenge /\ [][NextChallenge]_vars

(***************************************************************************)
(* SpecCatalog: the construction of the allocator from any list of sizes   *)
(* NewAllocator accepts (zero included), a write of the caller to its own  *)
(* slice afterwards, and one call of each operation of the allocator,      *)
(* before or after Close.                                                  *)
(***************************************************************************)
CatalogSizeValues == 0..MaxCatalogSize

CatalogInputLists ==
  UNION {[1..n -> CatalogSizeValues] : n \in 0..MaxCatalog}

CatalogQuantities == 0..MaxCatalogQty

InitCatalog ==
  /\ input \in CatalogInputLists
  /\ packSizes = << >>
  /\ hasStorage \in BOOLEAN
  /\ closed = FALSE
  /\ rows = << >>
  /\ clock = 0
  /\ ret = Unbuilt
  /\ remembered = NoAnswer
  /\ http = NoRequest

Ready == ret.op \in {"none", "Close"}

NextCatalog ==
  \/ NewAllocatorCall /\ UNCHANGED http
  \/ \E i \in 1..Len(input), v \in CatalogSizeValues :
       CallerWrites(i, v) /\ UNCHANGED http
  \/ \E q \in CatalogQuantities :
       Ready /\ CalculatePacks(q) /\ UNCHANGED http
  \/ \E q \in CatalogQuantities :
       Ready /\ CalculatePacksOptimized(q) /\ UNCHANGED http
  \/ \E q \in CatalogQuantities :
       Ready /\ GreedyWithCorrectionPacks(q) /\ UNCHANGED http
  \/ \E limit \in RecentLimits :
       Ready /\ GetRecentAllocations(limit) /\ UNCHANGED http
  \/ ret.op = "none" /\ Close /\ UNCHANGED http

SpecCatalog == InitCatalog /\ [][NextCatalog]_vars

(***************************************************************************)
(* The HTTP handlers of internal/api over the allocator, one request at a  *)
(* time.                                                                   *)
(***************************************************************************)
StatusOK == 200
StatusBadRequest == 400
StatusInternalServerError == 500
StatusGatewayTimeout == 504

ErrInvalidQuantityParam == "invalid quantity"
ErrCalculationTimeout == "calculation timeout"

\* The text of a query value made of signs, digits and the letters a, b, c.
Chr(b) ==
  IF b = 43 THEN "+"
  ELSE IF b = 45 THEN "-"
  ELSE IF b \in 48..57
  THEN <<"0", "1", "2", "3", "4", "5", "6", "7", "8", "9">>[b - 47]
  ELSE <<"a", "b", "c">>[b - 96]

RECURSIVE Text(_)
Text(s) == IF Len(s) = 0 THEN "" ELSE Chr(Head(s)) \o Text(Tail(s))

IsDigits(s) == Len(s) > 0 /\ \A i \in 1..Len(s) : s[i] \in 48..57

\* strconv.Atoi(s) as the handler calls it: an optional sign followed by
\* digits parses, anything else (the empty text of a missing parameter
\* included) is a syntax error naming the text.
StrconvAtoi(s) ==
  LET signed == Len(s) > 0 /\ Head(s) \in {43, 45}
      body == IF signed THEN Tail(s) ELSE s
  IN IF IsDigits(body)
     THEN [value |-> IF signed /\ Head(s) = 45 THEN 0 - AtoiDigits(body, 0)
                     ELSE AtoiDigits(body, 0),
           err |-> ErrNil]
     ELSE [value |-> 0,
           err |-> "strconv.Atoi: parsing \"" \o Text(s)
                     \o "\": invalid syntax"]

\* c.JSON(status, gin.H{"error": text})
ErrorResponse(status, text) ==
  [status |-> status, error |-> text, packs |-> EmptyMap, isNil |-> TRUE,
   total |-> 0, allocations |-> << >>]

\* c.JSON(200, gin.H{"packs": packs, "total": total})
PacksResponse(packs, isNil, total) ==
  [status |-> StatusOK, error |-> "", packs |-> packs, isNil |-> isNil,
   total |-> total, allocations |-> << >>]

\* c.JSON(200, gin.H{"allocations": allocations})
AllocationsResponse(allocations) ==
  [status |-> StatusOK, error |-> "", packs |-> EmptyMap, isNil |-> TRUE,
   total |-> 0, allocations |-> allocations]

\* gin's Recovery middleware (the router is gin.Default()) answers a panic
\* of the handler with a bare 500.
RecoveryResponse == ErrorResponse(StatusInternalServerError, "")

\* The query values a client sends: none, a word, a lone sign and numbers.
QueryTexts ==
  {<< >>, <<97, 98, 99>>, <<45>>}
    \cup {Itoa(n) : n \in (0 - 1)..MaxServerQty}

\* calculatePacks, part_007:73-79: read and check the quantity parameter.
\* A request is taken when none is being served.
calculatePacksParse(query) ==
  /\ http.pc \in {"idle", "done"}
  /\ LET parsed == StrconvAtoi(query)
     IN http' =
          IF parsed.err # ErrNil \/ parsed.value <= 0
          THEN [pc |-> "done", path |-> "/calculate", query |-> query,
                quantity |-> parsed.value, ctxDone |-> FALSE,
                responses |-> <<ErrorResponse(StatusBadRequest,
                                              ErrInvalidQuantityParam)>>]
          ELSE [pc |-> "calculating", path |-> "/calculate",
                query |-> query, quantity |-> parsed.value,
                ctxDone |-> FALSE, responses |-> << >>]
  /\ UNCHANGED allocatorVars

\* The request's context ends (the client goes away, or the 20 minutes of
\* line 88 pass) while the handler is at work.
ContextDone ==
  /\ http.pc \in {"calculating", "calculated"}
  /\ ~http.ctxDone
  /\ http' = [http EXCEPT !.ctxDone = TRUE]
  /\ UNCHANGED allocatorVars

\* Lines 101-102: the handler's own goroutine calls CalculatePacks and puts
\* the result into the buffered channel; ret holds what the channel holds.
calculatePacksCall ==
  /\ http.pc = "calculating"
  /\ CalculatePacks(http.quantity)
  /\ http' = IF ret'.panicked
             THEN [http EXCEPT !.pc = "done",
                               !.responses = Append(@, RecoveryResponse)]
             ELSE [http EXCEPT !.pc = "calculated"]

\* A select that could take the timeout case at any time.
SelectCasesTimeoutAlways(ctxDone) == {"result", "ctx.Done"}

\* Lines 104-106: the cases of the select that are ready.  The channel
\* holds the result; ctx.Done() is ready when the context has ended, and
\* Go picks among ready cases at random.
SelectCases(ctxDone) ==
  IF ctxDone THEN {"result", "ctx.Done"} ELSE {"result"}

\* Lines 104-116: the select and the response it writes.
calculatePacksSelect ==
  /\ http.pc = "calculated"
  /\ \E case \in SelectCases(http.ctxDone) :
       http' = [http EXCEPT
                  !.pc = "done",
                  !.responses =
                    Append(@,
                      IF case = "ctx.Done"
                      THEN ErrorResponse(StatusGatewayTimeout,
                                         ErrCalculationTimeout)
                      ELSE IF ret.err # ErrNil
                      THEN ErrorResponse(StatusBadRequest, ret.err)
                      ELSE PacksResponse(ret.packs, ret.isNil, ret.total))]
  /\ UNCHANGED allocatorVars

\* A handler that answers 200 whatever the allocator returned.
RecentResponseAlwaysOK(allocations, err) == AllocationsResponse(allocations)

\* Lines 129-138: an error of the allocator is answered with 500 and its
\* text, a result with 200.
RecentResponse(allocations, err) ==
  IF err # ErrNil THEN ErrorResponse(StatusInternalServerError, err)
  ELSE AllocationsResponse(allocations)

\* getRecentAllocations, part_007:127-139.
getRecentAllocations ==
  /\ http.pc \in {"idle", "done"}
  /\ GetRecentAllocations(HandlerLimit)
  /\ http' = [pc |-> "done", path |-> "/recent", query |-> << >>,
              quantity |-> 0, ctxDone |-> FALSE,
              responses |-> <<RecentResponse(ret'.recent, ret'.err)>>]

(***************************************************************************)
(* SpecHandler: the server of cmd/api answering GET /calculate and         *)
(* GET /recent.                                                            *)
(***************************************************************************)
InitHandler == Built(ServerInputLists)

NextHandler ==
  \/ \E query \in QueryTexts : calculatePacksParse(query)
  \/ ContextDone
  \/ calculatePacksCall
  \/ calculatePacksSelect
  \/ getRecentAllocations
  \/ Tick /\ UNCHANGED http

SpecHandler == InitHandler /\ [][NextHandler]_vars

(***************************************************************************)
(* What the claims speak of: multiplicity vectors over the pack sizes.     *)
(***************************************************************************)
RECURSIVE SumOver(_, _)
SumOver(f, S) ==
  IF S = {} THEN 0
  ELSE LET x == CHOOSE x \in S : TRUE IN f[x] + SumOver(f, S \ {x})

\* Sum of size * count over a packs map, and its number of packs.
MapTotal(m) == SumOver([k \in DOMAIN m |-> k * m[k]], DOMAIN m)
PackCount(m) == SumOver(m, DOMAIN m)

\* The pairs <<total, number of packs>> of all multiplicity vectors over
\* ps[i..] whose total is at most upto.
RECURSIVE PairsUpTo(_, _, _)
PairsUpTo(ps, i, upto) ==
  IF i > Len(ps) THEN {<<0, 0>>}
  ELSE UNION {{<<n * ps[i] + p[1], n + p[2]>> :
                 p \in PairsUpTo(ps, i + 1, upto - n * ps[i])} :
              n \in 0..(upto \div ps[i])}

LexLess(a, b) == a[1] < b[1] \/ (a[1] = b[1] /\ a[2] < b[2])

CalledCalculatePacks == ret.op = "CalculatePacks"
CalledOptimized == ret.op = "CalculatePacksOptimized"
ValidInput == ret.quantity > 0 /\ Len(packSizes) > 0

\* C1: for every quantity > 0 and every non-empty list of positive pack
\* sizes, CalculatePacks succeeds with a total that is at least the quantity.
C1_TotalCoversQuantity ==
  (CalledCalculatePacks /\ ValidInput)
    => (ret.err = ErrNil /\ ret.total >= ret.quantity)

\* C1 witness: CalculatePacks went through its search (the quantity is not
\* below the smallest size) on three different sizes and overshot.
C1_Witness ==
  /\ CalledCalculatePacks
  /\ Len(packSizes) = 3
  /\ packSizes[1] > packSizes[2] /\ packSizes[2] > packSizes[3]
  /\ ret.quantity >= packSizes[3]
  /\ ret.total > ret.quantity

\* C2: after a successful CalculatePacks the returned total is the sum of
\* size * count over the returned packs, and so is the pair handed to
\* StoreAllocation.
C2_TotalMatchesPacks ==
  (CalledCalculatePacks /\ ret.err = ErrNil)
    => /\ MapTotal(ret.packs) = ret.total
       /\ ret.store.called => MapTotal(ret.store.packs) = ret.store.total

\* C3: minimal overage: no multiplicity vector has a total T with
\* quantity <= T < the total CalculatePacks returned.
C3_MinimalOverage ==
  (CalledCalculatePacks /\ ValidInput)
    => ~ \E p \in PairsUpTo(packSizes, 1, ret.total) :
           ret.quantity <= p[1] /\ p[1] < ret.total

\* C4: minimal pack count: no multiplicity vector with the returned total
\* uses fewer packs than the packs map CalculatePacks returned.
C4_MinimalPackCount ==
  (CalledCalculatePacks /\ ValidInput)
    => ~ \E p \in PairsUpTo(packSizes, 1, ret.total) :
           p[1] = ret.total /\ p[2] < PackCount(ret.packs)

\* C5: for the catalog {250, 500, 1000, 2000, 5000} and the quantity 12001
\* CalculatePacks returns {5000: 2, 2000: 1, 250: 1} with total 12250.
C5_ChallengeExample ==
  (CalledCalculatePacks /\ ret.quantity = 12001
     /\ packSizes = <<5000, 2000, 1000, 500, 250>>)
    => /\ ret.packs = (5000 :> 2 @@ 2000 :> 1 @@ 250 :> 1)
       /\ ret.total = 12250

\* All multiplicity vectors over ps[i..] (one count per entry of ps, as a
\* sequence) whose total is at most upto.
RECURSIVE VectorsUpTo(_, _, _)
VectorsUpTo(ps, i, upto) ==
  IF i > Len(ps) THEN {<< >>}
  ELSE UNION {{<<n>> \o t : t \in VectorsUpTo(ps, i + 1, upto - n * ps[i])} :
              n \in 0..(upto \div ps[i])}

VecTotal(ps, v) == SumOver([i \in 1..Len(ps) |-> ps[i] * v[i]], 1..Len(ps))
VecCount(v) == SumOver(v, DOMAIN v)
VecPair(ps, v) == <<VecTotal(ps, v), VecCount(v)>>

\* The packs map of a vector: size -> count, zero counts left out.
VecMap(ps, v) ==
  [s \in {ps[i] : i \in {j \in 1..Len(ps) : v[j] > 0}} |->
     SumOver([i \in 1..Len(ps) |-> IF ps[i] = s THEN v[i] ELSE 0],
             1..Len(ps))]

\* v exceeds w at the first entry where they differ; ps is sorted
\* descending, so the entries run from the largest size to the smallest.
VecLexGreater(v, w) ==
  \E i \in DOMAIN v : v[i] > w[i] /\ \A j \in 1..(i - 1) : v[j] = w[j]

\* The vectors that cover quantity with the least total and, among those,
\* the fewest packs.  The least total is below quantity + ps[1], since
\* enough packs of one size overshoot by less than that size.
OptimalVectors(ps, quantity) ==
  LET all == {v \in VectorsUpTo(ps, 1, quantity + ps[1]) :
                VecTotal(ps, v) >= quantity}
  IN {v \in all : \A w \in all : ~LexLess(VecPair(ps, w), VecPair(ps, v))}

DistinctSizes ==
  \A i, j \in 1..Len(packSizes) : i # j => packSizes[i] # packSizes[j]

SearchedOptimized == CalledOptimized /\ ~ret.cacheHit

\* The allocation returned is a multiplicity vector of the pack sizes that
\* covers the quantity, and no vector that covers the quantity has a smaller
\* (total, number of packs).
ReturnedLexMin ==
  /\ ret.err = ErrNil
  /\ ret.total >= ret.quantity
  /\ DOMAIN ret.packs \subseteq {packSizes[i] : i \in 1..Len(packSizes)}
  /\ MapTotal(ret.packs) = ret.total
  /\ \A p \in PairsUpTo(packSizes, 1, ret.total) :
        p[1] >= ret.quantity
          => ~LexLess(p, <<ret.total, PackCount(ret.packs)>>)

\* C6: without a cache answer, CalculatePacksOptimized returns, for every
\* quantity > 0 and every non-empty list of positive pack sizes, the
\* lexicographic minimum of (total, number of packs) over the vectors whose
\* total is at least the quantity.
C6_OptimizedLexMin ==
  (SearchedOptimized /\ ValidInput) => ReturnedLexMin

\* C6 on pack sizes without a repeated entry: the same statement, which
\* holds there.
C6_OptimizedLexMinDistinct ==
  (SearchedOptimized /\ ValidInput /\ DistinctSizes) => ReturnedLexMin

\* The packs returned are those of the optimal vector that is largest when
\* read from the largest size to the smallest.
ReturnedLargestFirst ==
  LET opt == OptimalVectors(packSizes, ret.quantity)
  IN Cardinality(opt) > 1
       => \E v \in opt :
            /\ \A w \in opt : w = v \/ VecLexGreater(v, w)
            /\ ret.packs = VecMap(packSizes, v)

\* C7: when several vectors reach the minimal total with the minimal number
\* of packs, CalculatePacksOptimized returns the one whose counts are
\* lexicographically largest from the largest size to the smallest.
C7_TieBreakLargestFirst ==
  (SearchedOptimized /\ ValidInput) => ReturnedLargestFirst

\* C7 on pack sizes without a repeated entry: the same statement, which
\* holds there.
C7_TieBreakDistinct ==
  (SearchedOptimized /\ ValidInput /\ DistinctSizes) => ReturnedLargestFirst

\* A state where C7's case happens: two optimal vectors, and the search
\* returned.
C7_TieSeen ==
  /\ SearchedOptimized /\ ValidInput /\ DistinctSizes
  /\ Cardinality(OptimalVectors(packSizes, ret.quantity)) > 1

\* C8: for every quantity <= 0 and every pack-size list, the empty one
\* included, CalculatePacks and CalculatePacksOptimized fail with
\* "quantity must be greater than 0", nil packs and total 0; nothing is
\* stored and nothing is answered from the cache.
C8_InvalidQuantityRejected ==
  (ret.op # "none" /\ ret.quantity <= 0)
    => /\ ret.err = "quantity must be greater than 0"
       /\ ret.isNil /\ ret.packs = EmptyMap
       /\ ret.total = 0
       /\ ~ret.panicked /\ ~ret.cacheHit /\ ~ret.store.called
       /\ rows = << >>

\* C8 witness: CalculatePacks was called with a quantity <= 0 on an
\* allocator without pack sizes, over a storage.
C8_Witness ==
  /\ CalledCalculatePacks
  /\ ret.quantity <= 0
  /\ Len(packSizes) = 0
  /\ hasStorage
  /\ ret.err = "quantity must be greater than 0"

\* C9: for every quantity > 0, both entry points on an allocator built from
\* an empty pack-size list return "no pack sizes configured" and no
\* allocation, and do not crash.
C9_EmptyCatalogRejected ==
  (ret.op # "none" /\ ret.quantity > 0 /\ Len(packSizes) = 0)
    => /\ ret.err = "no pack sizes configured"
       /\ ret.isNil /\ ret.total = 0
       /\ ~ret.panicked

\* C10: determinism: a call of CalculatePacksOptimized returns the packs and
\* the total that an earlier call with the same quantity returned, whatever
\* calls and storage writes came between them.
C10_Determinism ==
  (CalledOptimized /\ ret.err = ErrNil /\ remembered.set
     /\ remembered.quantity = ret.quantity)
    => (ret.packs = remembered.packs /\ ret.total = remembered.total)

\* C11: an answer from the cache is a row stored for the requested quantity,
\* its total is at least the quantity and equals the sum of size * count
\* over its packs.
C11_CacheHitInvariants ==
  (CalledOptimized /\ ret.cacheHit)
    => /\ \E i \in 1..Len(rows) :
            /\ rows[i].order_quantity = ret.quantity
            /\ ScanAllocation(rows, i).Packs = ret.packs
            /\ ScanAllocation(rows, i).Total = ret.total
       /\ ret.total >= ret.quantity
       /\ MapTotal(ret.packs) = ret.total

\* C12: what CalculatePacks returns is a function of the pack sizes and the
\* quantity alone: the same packs, total and error without a storage, with
\* a StoreAllocation that succeeds and with one that fails; a storage error
\* never becomes the error of the call.
C12_ResultIndependentOfStorage ==
  CalledCalculatePacks
    => /\ LET r == CalculatePacksResult(packSizes, ret.quantity)
          IN /\ ret.packs = r.packs /\ ret.isNil = r.isNil
             /\ ret.total = r.total /\ ret.err = r.err
       /\ ret.err \notin {ErrInvalidArgumentMsg, ErrDatabaseMsg}
       /\ ret.store.called => (ret.packs = ret.store.packs /\ ret.err = ErrNil)

\* C12 witness: CalculatePacks ran its search, StoreAllocation failed and
\* the call still returned its allocation.
C12_Witness ==
  /\ CalledCalculatePacks
  /\ ret.store.called /\ ret.store.err = ErrDatabaseMsg
  /\ rows = << >>
  /\ ret.err = ErrNil
  /\ Cardinality(DOMAIN ret.packs) > 1

\* C13: right after a successful CalculatePacks(q) whose StoreAllocation
\* succeeded, GetAllocationByQuantity(q) finds a record, and the record has
\* OrderQuantity q and the packs and total the call returned.
C13_StoredAllocationReadBack ==
  (CalledCalculatePacks /\ ret.err = ErrNil
     /\ ret.store.called /\ ret.store.err = ErrNil)
    => /\ LatestRows(rows, ret.quantity) # {}
       /\ \A i \in LatestRows(rows, ret.quantity) :
            LET a == ScanAllocation(rows, i)
            IN /\ a.OrderQuantity = ret.quantity
               /\ a.Packs = ret.packs
               /\ a.Total = ret.total

\* C14: calls sharing one storage do not interfere: whatever calls ran
\* before it, a call returns what the same call returns when it runs alone
\* on an empty storage (CalculatePacks its own computation,
\* CalculatePacksOptimized the outcome of its search).
C14_CallsDoNotInterfere ==
  /\ CalledCalculatePacks
       => LET r == CalculatePacksResult(packSizes, ret.quantity)
          IN ret.packs = r.packs /\ ret.total = r.total /\ ret.err = r.err
  /\ (CalledOptimized /\ ValidInput)
       => LET best == SearchBest(packSizes, ret.quantity)
          IN best.found
               => /\ ret.err = ErrNil
                  /\ ret.packs = best.packs
                  /\ ret.total = best.total

\* The number of entries of the sequence s that equal x.
Occurrences(s, x) == Cardinality({i \in 1..Len(s) : s[i] = x})

\* C15: for every input sequence (unsorted, sorted, one element, empty) the
\* allocator holds the given pack sizes, each as often as given, in
\* descending order; the empty input gives the empty list.
C15_SortedDescending ==
  /\ \A i, j \in 1..Len(packSizes) : i < j => packSizes[i] >= packSizes[j]
  /\ Len(packSizes) = Len(input)
  /\ \A x \in PackSizeValues :
       Occurrences(packSizes, x) = Occurrences(input, x)

\* C15 witness: built from three different sizes given in ascending order.
C15_Witness ==
  /\ Fresh
  /\ Len(input) = 3
  /\ input[1] < input[2] /\ input[2] < input[3]
  /\ packSizes = <<input[3], input[2], input[1]>>

\* C16: the pack sizes the allocator holds contain each size at most once.
C16_DuplicatesCollapse ==
  \A i, j \in 1..Len(packSizes) : i < j => packSizes[i] # packSizes[j]

AllocationOps ==
  {"CalculatePacks", "CalculatePacksOptimized", "GreedyWithCorrectionPacks"}

\* C17: no allocation call runs on an allocator that holds a pack size
\* <= 0: a list with such an entry is turned down when the allocator is
\* built.
C17_NonPositiveSizesRejected ==
  ret.op \in AllocationOps => \A i \in 1..Len(packSizes) : packSizes[i] > 0

\* C18: once NewAllocator has returned, no step changes packSizes, whether
\* an operation of the allocator or a write of the caller to the slice it
\* passed in; and NewAllocator itself leaves that slice as it was.
C18_CatalogImmutable ==
  [][/\ ret.op # "unbuilt" => packSizes' = packSizes
     /\ ret.op = "unbuilt" => input' = input]_vars

\* C18 witness: the caller has changed its slice after the construction,
\* and an operation has then run on the allocator, which still holds the
\* sizes it was built from.
C18_Witness ==
  /\ ret.op \in AllocationOps \cup {"GetRecentAllocations"}
  /\ Len(packSizes) = MaxCatalog
  /\ NewAllocator(input) # packSizes
  /\ ~ret.panicked

\* The pack sizes the allocator holds, as a set.
CatalogSizes == {packSizes[i] : i \in 1..Len(packSizes)}

\* Every key of m is a pack size of the allocator and every count is
\* strictly positive.
PositiveOverCatalog(m) ==
  \A k \in DOMAIN m : k \in CatalogSizes /\ m[k] > 0

\* C19: the packs map CalculatePacks returns, the one it hands to
\* StoreAllocation and the one read back from the row it wrote have only
\* pack sizes of the allocator as keys and only counts > 0.
C19_OnlyPositiveCounts ==
  (CalledCalculatePacks /\ ret.err = ErrNil)
    => /\ PositiveOverCatalog(ret.packs)
       /\ ret.store.called => PositiveOverCatalog(ret.store.packs)
       /\ (ret.store.called /\ ret.store.err = ErrNil)
            => /\ Len(rows) > 0
               /\ PositiveOverCatalog(ScanAllocation(rows, Len(rows)).Packs)

\* C19 witness: CalculatePacks went through its search on two different
\* sizes, answered with packs of the smaller one alone, and stored the
\* answer.
C19_Witness ==
  /\ CalledCalculatePacks /\ ret.err = ErrNil
  /\ Len(packSizes) = 2 /\ packSizes[1] > packSizes[2]
  /\ ret.quantity >= packSizes[2]
  /\ DOMAIN ret.packs = {packSizes[2]}
  /\ ret.store.called /\ ret.store.err = ErrNil

\* C20: with a single pack size s and a quantity q > 0, CalculatePacks
\* returns n packs of size s and the total n * s, where n is the least
\* number of packs with n * s >= q.
C20_SingleSize ==
  (CalledCalculatePacks /\ Len(packSizes) = 1 /\ ret.quantity > 0)
    => LET s == packSizes[1]
           n == CHOOSE n \in 1..ret.quantity :
                  n * s >= ret.quantity /\ (n - 1) * s < ret.quantity
       IN /\ ret.err = ErrNil
          /\ ret.packs = (s :> n)
          /\ ret.total = n * s

\* C20 witness: one size, a quantity above it that it does not divide.
C20_Witness ==
  /\ CalledCalculatePacks
  /\ Len(packSizes) = 1
  /\ ret.quantity > packSizes[1]
  /\ ret.quantity % packSizes[1] # 0
  /\ ret.total > ret.quantity

\* C21: for a quantity q with 0 < q < the smallest pack size, CalculatePacks
\* returns one pack of the smallest size, and no multiplicity vector covers
\* q with a smaller total.
C21_BelowSmallestSize ==
  (CalledCalculatePacks /\ ValidInput
     /\ \A i \in 1..Len(packSizes) : ret.quantity < packSizes[i])
    => /\ ret.err = ErrNil
       /\ \E k \in CatalogSizes :
            /\ \A x \in CatalogSizes : k <= x
            /\ ret.packs = (k :> 1)
            /\ ret.total = k
       /\ \A v \in VectorsUpTo(packSizes, 1, ret.total) :
            VecTotal(packSizes, v) >= ret.quantity
              => VecTotal(packSizes, v) >= ret.total

\* C21 witness: three different sizes, a quantity below the smallest one,
\* and the single pack was stored.
C21_Witness ==
  /\ CalledCalculatePacks
  /\ Len(packSizes) = 3
  /\ packSizes[1] > packSizes[2] /\ packSizes[2] > packSizes[3]
  /\ ret.quantity > 0 /\ ret.quantity < packSizes[3]
  /\ ret.store.called /\ ret.store.err = ErrNil
  /\ ret.total = packSizes[3]

\* C22: overage bound: for every quantity > 0 and every non-empty list of
\* positive pack sizes, the total CalculatePacks returns exceeds the
\* quantity by less than the largest pack size.
C22_OverageBound ==
  (CalledCalculatePacks /\ ValidInput)
    => /\ ret.err = ErrNil
       /\ \E largest \in CatalogSizes :
            /\ \A x \in CatalogSizes : x <= largest
            /\ ret.total - ret.quantity < largest

\* C22 witness: the search ran on two different sizes for a quantity that
\* is at least the largest one, and overshot.
C22_Witness ==
  /\ CalledCalculatePacks
  /\ Len(packSizes) = 2 /\ packSizes[1] > packSizes[2]
  /\ ret.quantity >= packSizes[1]
  /\ ret.total > ret.quantity

\* The rows stored for quantity q, by index.
RowsFor(q) == {i \in 1..Len(rows) : rows[i].order_quantity = q}

\* C23: for every quantity q, whichever row GetAllocationByQuantity(q) reads
\* is the one written by the most recent StoreAllocation for q, with its
\* OrderQuantity, Packs and Total; with no row for q it finds none.
C23_LatestStoredIsReturned ==
  \A q \in ServerQuantities :
    /\ RowsFor(q) = {} => LatestRows(rows, q) = {}
    /\ RowsFor(q) # {}
         => LET last == CHOOSE i \in RowsFor(q) : \A j \in RowsFor(q) : j <= i
                written == ScanAllocation(rows, last)
            IN /\ LatestRows(rows, q) # {}
               /\ \A i \in LatestRows(rows, q) :
                    LET a == ScanAllocation(rows, i)
                    IN /\ a.OrderQuantity = q
                       /\ a.Packs = written.Packs
                       /\ a.Total = written.Total

AnsweredCalculate == http.path = "/calculate" /\ http.pc = "done"

\* C25: GET /calculate answers 400 for every bad quantity and tells the two
\* kinds apart: a missing or non-numeric quantity is answered with
\* "invalid quantity: <parse error>", a parsed quantity <= 0 with
\* "quantity must be greater than 0".
C25_BadQuantityKindsToldApart ==
  AnsweredCalculate =>
    LET parsed == StrconvAtoi(http.query)
    IN /\ parsed.err # ErrNil =>
            http.responses =
              <<ErrorResponse(StatusBadRequest,
                              "invalid quantity: " \o parsed.err)>>
       /\ (parsed.err = ErrNil /\ parsed.value <= 0) =>
            http.responses =
              <<ErrorResponse(StatusBadRequest, ErrInvalidQuantity)>>

\* A finished exchange on GET /recent; ret is what the allocator returned
\* to the handler.
AnsweredRecent ==
  /\ http.path = "/recent"
  /\ http.pc = "done"
  /\ ret.op = "GetRecentAllocations"

\* What GetRecentAllocations and GET /recent do without a storage.
RecentWithoutStorage ==
  (AnsweredRecent /\ ~hasStorage) =>
    /\ ret.err = ErrStorageNotConfigured
    /\ ret.isNil
    /\ ret.recent = << >>
    /\ http.responses =
         <<ErrorResponse(StatusInternalServerError, ErrStorageNotConfigured)>>

C27_SearchAlwaysFinds ==
  (SearchedOptimized /\ ValidInput) =>
    /\ ~ret.panicked
    /\ ret.err # ErrNoCombinationMsg
    /\ ret.err = ErrNil
    /\ ~ret.isNil
    /\ ret.total >= ret.quantity

\* C27 witness: a search over a full catalog none of whose sizes divides
\* the quantity has returned a total above the quantity.
C27_Witness ==
  /\ SearchedOptimized
  /\ Len(packSizes) = MaxCatalog
  /\ \A i \in 1..Len(packSizes) : ret.quantity % packSizes[i] # 0
  /\ ret.err = ErrNil
  /\ ret.total > ret.quantity

\* The request being served is a GET /calculate with a valid quantity.
ValidCalculateRequest ==
  /\ http.path = "/calculate"
  /\ StrconvAtoi(http.query).err = ErrNil
  /\ StrconvAtoi(http.query).value > 0

\* C28: in the /calculate handler, for a request with a valid quantity,
\* CalculatePacks has returned, its StoreAllocation included, before a
\* response is chosen: nothing is written while the calculation has not
\* returned, the step that writes the response comes after the call and
\* touches neither the result nor the storage, 504 "calculation timeout" is
\* written only when the request's context is done, and a served request
\* has exactly one response.
C28_OneResponseAfterCalculation ==
  /\ [](ValidCalculateRequest =>
          /\ http.pc \in {"calculating", "calculated"} =>
               http.responses = << >>
          /\ http.pc = "done" =>
               /\ Len(http.responses) = 1
               /\ ret.op = "CalculatePacks"
               /\ ret.quantity = http.quantity
               /\ http.responses[1].status = StatusGatewayTimeout =>
                    /\ http.ctxDone
                    /\ http.responses[1].error = ErrCalculationTimeout
               /\ http.responses[1].status # StatusGatewayTimeout =>
                    http.responses[1] =
                      IF ret.err # ErrNil
                      THEN ErrorResponse(StatusBadRequest, ret.err)
                      ELSE PacksResponse(ret.packs, ret.isNil, ret.total))
  /\ [][(ValidCalculateRequest' /\ http'.responses # << >>
           /\ http' # http) =>
          /\ http.pc = "calculated"
          /\ http.query = http'.query
          /\ ret.op = "CalculatePacks"
          /\ ret' = ret
          /\ rows' = rows]_vars

\* C28 witness: a valid request whose calculation stored its result was
\* answered 504 because its context had ended.
C28_Witness ==
  /\ ValidCalculateRequest
  /\ http.pc = "done"
  /\ http.ctxDone
  /\ http.responses[1].status = StatusGatewayTimeout
  /\ ret.store.called
  /\ ret.store.err = ErrNil
  /\ Len(rows) > 0

\* The errors with which an allocation call turns its input down.
InputErrors == {ErrInvalidQuantity, "no pack sizes configured"}

\* C29: a call of CalculatePacks or CalculatePacksOptimized that returns an
\* input error (quantity <= 0, or an empty catalog for CalculatePacks) has
\* made no StoreAllocation call and returns no cached row and no
\* allocation: the stored allocations are the same after the call as
\* before.
C29_FailedCallLeavesStorage ==
  [][(ret'.op \in {"CalculatePacks", "CalculatePacksOptimized"}
        /\ ret'.err \in InputErrors) =>
       /\ rows' = rows
       /\ ~ret'.store.called
       /\ ~ret'.cacheHit
       /\ ret'.isNil
       /\ ret'.total = 0]_vars

\* C29 witness: a call was turned down for its quantity on an allocator
\* whose storage holds allocations.
C29_Witness ==
  /\ ret.op \in {"CalculatePacks", "CalculatePacksOptimized"}
  /\ ret.err = ErrInvalidQuantity
  /\ hasStorage
  /\ Len(rows) = MaxRows
  /\ ~ret.store.called

CalledGreedy == ret.op = "GreedyWithCorrectionPacks" /\ ~ret.panicked

====
